---- MODULE Spec2Model ----
(***************************************************************************)
(* Model of the Cressi Goa dive parser (src/src/cressi_goa_parser.c):      *)
(* header decoding (cressi_goa_init / cressi_goa_parser_create), the       *)
(* datetime and field queries, and the sample walk                         *)
(* (cressi_goa_parser_samples_foreach) with the events it delivers.        *)
(*                                                                         *)
(* Number representation.  TLC integers are 32-bit signed, the C code uses *)
(* 32-bit unsigned int.  An unsigned value v >= 2^31 is written as its     *)
(* residue v - 2^32, so 0xFFFFFFFF is -1 and the additions the code makes  *)
(* on it wrap exactly as in C.  The millisecond figure time * 1000 can     *)
(* exceed 2^31 and is kept as the record [hi, lo] of its 16-bit halves.       *)
(* Floating point results v / 10.0, v / 100.0, v / 1000.0 are kept as the  *)
(* exact fraction [num |-> v, den |-> 10] (100, 1000).                     *)
(***************************************************************************)
EXTENDS Integers, Sequences, FiniteSets

\* ------------------------------------------------------------------ bounds
MaxWords == 3
MaxWalks == 2
LongWords == 263

\* ------------------------------------------------------- program constants
SZ_HEADER == 23
DEPTH == 0
DEPTH2 == 1
TIME == 2
TEMPERATURE == 3
SCUBA == 0
NITROX == 1
FREEDIVE == 2
GAUGE == 3
NGASMIXES == 2
UNDEFINED == -1
MinIdLen == 9

Layout(hs, dt, dv, gm, at, md, ad, tp) ==
    [headersize |-> hs, datetime |-> dt, divetime |-> dv, gasmix |-> gm,
     atmospheric |-> at, maxdepth |-> md, avgdepth |-> ad, temperature |-> tp]

layouts ==
    << Layout(92, 12, 20, 26, 30, 73, 75, 77),
       Layout(92, 12, 20, 26, 30, 73, 75, 77),
       Layout(38, 12, 20, UNDEFINED, UNDEFINED, 23, UNDEFINED, 25),
       Layout(40, 12, 20, UNDEFINED, 22, 24, 26, 28) >>

\* ----------------------------------------------------------------- state
VARIABLES
    data,             \* the raw buffer (abstract->data, abstract->size = Len)
    out,              \* *out of cressi_goa_parser_create: the parser, or NoParser
    pc,               \* "start", "failed", "ready", "walk"
    result,           \* what the last call returned
    reads,            \* byte indices the last call read from the buffer, in order
    size, interval, time, depth, gasmix, gasmix_previous,
    temperature, have_temperature, offset,   \* locals of samples_foreach
    events,           \* callback deliveries of the current / last walk
    firstEvents,      \* deliveries of the first finished walk (history)
    walks             \* number of finished walks

vars == << data, out, pc, result, reads, size, interval, time, depth, gasmix,
           gasmix_previous, temperature, have_temperature, offset, events,
           firstEvents, walks >>

walkvars == << size, interval, time, depth, gasmix, gasmix_previous,
               temperature, have_temperature, offset, events >>

NoParser == [layout |-> "none"]
NoEvents == << [type |-> "none"] >>
NoValue == [none |-> TRUE]
Uint(n) == [uint |-> n]

\* ------------------------------------------------------------ byte access
\* data[i] of the C buffer (0-based).  An index outside the buffer is
\* recorded in reads; C6_ReadsInBounds shows no reachable call makes one.
Byte(buf, i) == IF i >= 0 /\ i < Len(buf) THEN buf[i + 1] ELSE 0

\* The absolute index of data[idx] behind the pointer abstract->data + base,
\* idx an unsigned int: a negative residue is an index of 2^31 or more.
At(base, idx) == IF idx < 0 THEN idx ELSE base + idx

array_uint16_le(buf, i) == Byte(buf, i) + 256 * Byte(buf, i + 1)

Frac(n, d) == [num |-> n, den |-> d]

\* time * 1000 in unsigned 32-bit arithmetic, as [hi |-> high 16 bits, lo |-> low 16 bits].
Mul1000(t) ==
    LET tl == t % 65536
        th == t \div 65536
        pl == tl * 1000
    IN  [hi |-> (th * 1000 + pl \div 65536) % 65536, lo |-> pl % 65536]

\* ------------------------------------------------------- header decoding
Fail(msg, rd) ==
    [ret |-> [op |-> "create", status |-> "DC_STATUS_DATAFORMAT",
              error |-> msg],
     parser |-> NoParser, reads |-> rd]

PrefixesNoLogbookMin(id_len, logbook_len) == id_len < MinIdLen

\* line 145: the two length prefixes are below their minimum
PrefixesTooSmall(id_len, logbook_len) ==
    id_len < MinIdLen \/ logbook_len < SZ_HEADER

FixedRegionUnchecked(n, headersize, layout) == FALSE

\* line 168: the fixed-offset region of the layout does not fit
FixedRegionMissing(n, headersize, layout) ==
    n < headersize + layout.headersize

cressi_goa_init(buf) ==
    LET n == Len(buf) IN
    IF n < 2 THEN Fail("Invalid dive length", << >>)
    ELSE
    LET id_len == Byte(buf, 0)
        logbook_len == Byte(buf, 1)
        rd2 == << 0, 1 >>
    IN
    IF PrefixesTooSmall(id_len, logbook_len)
    THEN Fail("Invalid id or logbook length", rd2)
    ELSE IF n < 2 + id_len + logbook_len
    THEN Fail("Invalid dive length", rd2)
    ELSE
    LET divemode == Byte(buf, 2 + id_len + 2)
        rd3 == Append(rd2, 2 + id_len + 2)
    IN
    IF divemode >= Len(layouts) THEN Fail("Invalid dive mode", rd3)
    ELSE
    LET layout == layouts[divemode + 1]
        headersize == 2 + id_len + logbook_len
    IN
    IF FixedRegionMissing(n, headersize, layout)
    THEN Fail("Invalid dive length", rd3)
    ELSE
    [ret |-> [op |-> "create", status |-> "DC_STATUS_SUCCESS", error |-> ""],
     parser |-> [layout |-> layout, headersize |-> headersize,
                 divemode |-> divemode],
     reads |-> rd3]

\* ------------------------------------------------------------- datetime
cressi_goa_parser_get_datetime(p, buf, hasOut) ==
    LET b == p.headersize + p.layout.datetime IN
    IF hasOut
    THEN [ret |-> [op |-> "datetime", hasOut |-> TRUE,
                   status |-> "DC_STATUS_SUCCESS",
                   value |-> [year |-> array_uint16_le(buf, b),
                              month |-> Byte(buf, b + 2),
                              day |-> Byte(buf, b + 3),
                              hour |-> Byte(buf, b + 4),
                              minute |-> Byte(buf, b + 5),
                              second |-> 0,
                              timezone |-> "DC_TIMEZONE_NONE"]],
          reads |-> << b, b + 1, b + 2, b + 3, b + 4, b + 5 >>]
    ELSE [ret |-> [op |-> "datetime", hasOut |-> FALSE,
                   status |-> "DC_STATUS_SUCCESS", value |-> NoValue],
          reads |-> << >>]

\* ---------------------------------------------------------------- fields
RECURSIVE ScanAllSlots(_, _, _, _, _, _)
ScanAllSlots(buf, base, gm, i, n, rd) ==
    IF i >= NGASMIXES THEN [n |-> n, reads |-> rd]
    ELSE
    LET at == At(base, gm + 2 * i + 1) IN
    ScanAllSlots(buf, base, gm, i + 1,
                 IF Byte(buf, at) = 0 THEN n ELSE n + 1, Append(rd, at))

\* lines 238-242: count the leading slots whose oxygen byte is nonzero
RECURSIVE ScanGasmixes(_, _, _, _, _, _)
ScanGasmixes(buf, base, gm, i, n, rd) ==
    IF i >= NGASMIXES THEN [n |-> n, reads |-> rd]
    ELSE
    LET at == At(base, gm + 2 * i + 1) IN
    IF Byte(buf, at) = 0 THEN [n |-> n, reads |-> Append(rd, at)]
    ELSE ScanGasmixes(buf, base, gm, i + 1, n + 1, Append(rd, at))

FieldRet(type, flags, hasValue, status, value) ==
    [op |-> "field", type |-> type, flags |-> flags, hasValue |-> hasValue,
     status |-> status, value |-> value]

\* lines 250-252 and alike: a 16-bit field at a layout offset, scaled by 1/den
ScalarField(buf, base, off, den, rd) ==
    IF off = UNDEFINED
    THEN [status |-> "DC_STATUS_UNSUPPORTED", value |-> NoValue, reads |-> rd]
    ELSE [status |-> "DC_STATUS_SUCCESS",
          value |-> IF den = 1 THEN Uint(array_uint16_le(buf, At(base, off)))
                    ELSE Frac(array_uint16_le(buf, At(base, off)), den),
          reads |-> rd \o << At(base, off), At(base, off) + 1 >>]

cressi_goa_parser_get_field(p, buf, type, flags, hasValue) ==
    LET layout == p.layout
        base == p.headersize
        scan == IF layout.gasmix # UNDEFINED
                THEN ScanGasmixes(buf, base, layout.gasmix, 0, 0, << >>)
                ELSE [n |-> 0, reads |-> << >>]
        ngasmixes == scan.n
        rd == scan.reads
        r ==
          IF ~hasValue
          THEN [status |-> "DC_STATUS_SUCCESS", value |-> NoValue, reads |-> rd]
          ELSE CASE type = "DC_FIELD_DIVETIME" ->
                      ScalarField(buf, base, layout.divetime, 1, rd)
                 [] type = "DC_FIELD_MAXDEPTH" ->
                      ScalarField(buf, base, layout.maxdepth, 10, rd)
                 [] type = "DC_FIELD_AVGDEPTH" ->
                      ScalarField(buf, base, layout.avgdepth, 10, rd)
                 [] type = "DC_FIELD_TEMPERATURE_MINIMUM" ->
                      ScalarField(buf, base, layout.temperature, 10, rd)
                 [] type = "DC_FIELD_ATMOSPHERIC" ->
                      ScalarField(buf, base, layout.atmospheric, 1000, rd)
                 [] type = "DC_FIELD_GASMIX_COUNT" ->
                      [status |-> "DC_STATUS_SUCCESS", value |-> Uint(ngasmixes),
                       reads |-> rd]
                 [] type = "DC_FIELD_GASMIX" ->
                      LET at == At(base, layout.gasmix + 2 * flags + 1)
                          o2 == Byte(buf, at)
                      IN [status |-> "DC_STATUS_SUCCESS",
                          value |-> [usage |-> "DC_USAGE_NONE",
                                     helium |-> Frac(0, 100),
                                     oxygen |-> Frac(o2, 100),
                                     nitrogen |-> Frac(100 - o2, 100)],
                          reads |-> Append(rd, at)]
                 [] type = "DC_FIELD_DIVEMODE" ->
                      IF p.divemode \in {SCUBA, NITROX}
                      THEN [status |-> "DC_STATUS_SUCCESS",
                            value |-> [divemode |-> "DC_DIVEMODE_OC"], reads |-> rd]
                      ELSE IF p.divemode = GAUGE
                      THEN [status |-> "DC_STATUS_SUCCESS",
                            value |-> [divemode |-> "DC_DIVEMODE_GAUGE"], reads |-> rd]
                      ELSE IF p.divemode = FREEDIVE
                      THEN [status |-> "DC_STATUS_SUCCESS",
                            value |-> [divemode |-> "DC_DIVEMODE_FREEDIVE"], reads |-> rd]
                      ELSE [status |-> "DC_STATUS_DATAFORMAT",
                            value |-> NoValue, reads |-> rd]
                 [] OTHER ->
                      [status |-> "DC_STATUS_UNSUPPORTED", value |-> NoValue,
                       reads |-> rd]
    IN [ret |-> FieldRet(type, flags, hasValue, r.status, r.value),
        reads |-> r.reads]

\* ------------------------------------------------------------ sample walk
Ev(kind, v) == [type |-> kind, value |-> v]

LoopCondOffByOne(off, sz) == off + 1 <= sz

\* line 325: at least one whole 16-bit word is left
LoopCond(off, sz) == off + 2 <= sz

SurfaceAtInterval(surftime, iv) == surftime >= iv

\* line 343: the surface time is longer than one sampling interval
IsSurface(surftime, iv) == surftime > iv

KeepPendingTemperature(have) == have

\* line 368: the pending temperature is consumed by the record
ClearTemperature(have) == 0

GasChangedAnyMode(divemode, g, prev) == g # prev

\* lines 376-377: a gas change is reported in the two open-circuit modes only
GasChanged(divemode, g, prev) ==
    divemode \in {SCUBA, NITROX} /\ g # prev

StaleLocals(old) == old

\* lines 317-322: the initialisers of the walk's locals
FreshLocals(old) ==
    [time |-> 0, depth |-> 0, gasmix |-> 0, gasmix_previous |-> UNDEFINED,
     temperature |-> 0, have_temperature |-> 0]

\* One iteration of the loop (lines 326-387) on the word at `off`: the new
\* locals and the events delivered, in order.  The flag `complete` is 0
\* between iterations and is local to this definition.  The accumulator
\* stays far below 2^31 for the buffers of this model (at most LongWords
\* words of 16383 s), so its own 32-bit wrap is not reached; the wrap of
\* time * 1000 is, and Mul1000 computes it.
WalkIteration(p, buf, iv, loc, off) ==
    LET base == p.headersize
        raw == array_uint16_le(buf, At(base, off))
        type == raw % 4
        value == raw \div 4
        isDepth == type = DEPTH \/ type = DEPTH2
        surface == type = TIME /\ IsSurface(value, iv)
        bumped == IF surface THEN loc.time + iv ELSE loc.time
        surftime == IF surface THEN value - iv ELSE value
        synthetic == IF surface
                     THEN << Ev("DC_SAMPLE_TIME", Mul1000(bumped)),
                             Ev("DC_SAMPLE_DEPTH", Frac(0, 10)) >>
                     ELSE << >>
        time1 == IF isDepth THEN loc.time + iv
                 ELSE IF type = TIME THEN bumped + surftime ELSE loc.time
        depth1 == IF isDepth THEN value % 2048
                  ELSE IF type = TIME THEN 0 ELSE loc.depth
        gasmix1 == IF isDepth THEN (value \div 2048) % 2 ELSE loc.gasmix
        temp1 == IF type = TEMPERATURE THEN value ELSE loc.temperature
        have1 == IF type = TEMPERATURE THEN 1 ELSE loc.have_temperature
        complete == isDepth \/ type = TIME
        changed == GasChanged(p.divemode, gasmix1, loc.gasmix_previous)
        record ==
            IF complete
            THEN << Ev("DC_SAMPLE_TIME", Mul1000(time1)) >>
                 \o (IF have1 # 0
                     THEN << Ev("DC_SAMPLE_TEMPERATURE", Frac(temp1, 10)) >>
                     ELSE << >>)
                 \o << Ev("DC_SAMPLE_DEPTH", Frac(depth1, 10)) >>
                 \o (IF changed THEN << Ev("DC_SAMPLE_GASMIX", [gasmix |-> gasmix1]) >>
                     ELSE << >>)
            ELSE << >>
    IN [loc |-> [time |-> time1, depth |-> depth1, gasmix |-> gasmix1,
                 gasmix_previous |-> IF complete /\ changed THEN gasmix1
                                     ELSE loc.gasmix_previous,
                 temperature |-> temp1,
                 have_temperature |-> IF complete /\ have1 # 0
                                      THEN ClearTemperature(have1)
                                      ELSE have1],
        emitted |-> synthetic \o record,
        reads |-> << At(base, off), At(base, off) + 1 >>]

Locals ==
    [time |-> time, depth |-> depth, gasmix |-> gasmix,
     gasmix_previous |-> gasmix_previous, temperature |-> temperature,
     have_temperature |-> have_temperature]

SetLocals(loc) ==
    /\ time' = loc.time
    /\ depth' = loc.depth
    /\ gasmix' = loc.gasmix
    /\ gasmix_previous' = loc.gasmix_previous
    /\ temperature' = loc.temperature
    /\ have_temperature' = loc.have_temperature

\* ------------------------------------------------------------ the inputs
Word(type, value) == 4 * value + type

Alphabet ==
    { Word(DEPTH, 100), Word(DEPTH2, 2048 + 50), Word(TIME, 2),
      Word(TIME, 15), Word(TEMPERATURE, 200), Word(TEMPERATURE, 215) }

Filler(i) == (7 * i + 3) % 256

\* A record with the two length prefixes, the mode byte, the two oxygen
\* bytes of the gas mix table, the sample words `ws` and `extra` more bytes.
MkBuffer(id, lb, mode, o0, o1, ws, extra) ==
    LET hs == 2 + id + lb
        fixed == IF mode < Len(layouts) THEN layouts[mode + 1].headersize
                 ELSE 40
        total == hs + fixed + 2 * Len(ws) + extra
    IN [i \in 1..total |->
          LET j == i - 1
              k == j - (hs + fixed)
          IN IF j = 0 THEN id
             ELSE IF j = 1 THEN lb
             ELSE IF j = 2 + id + 2 THEN mode
             ELSE IF j = hs + 27 THEN o0
             ELSE IF j = hs + 29 THEN o1
             ELSE IF k >= 0 /\ k < 2 * Len(ws)
             THEN (IF k % 2 = 0 THEN ws[k \div 2 + 1] % 256
                   ELSE ws[k \div 2 + 1] \div 256)
             ELSE Filler(j)]

Cut(buf, n) == IF n >= Len(buf) THEN buf ELSE SubSeq(buf, 1, n)

\* Records that stop short at every place header decoding checks, and
\* records cut right after the fixed region, one byte and one word later.
HeaderBuffers ==
    { Cut(MkBuffer(id, lb, mode, 21, 0, << Word(DEPTH, 100) >>, extra), n) :
        id \in {8, 9, 10}, lb \in {22, 23, 24}, mode \in {0, 1, 2, 3, 4, 200},
        extra \in {0, 1},
        n \in {0, 1, 2, 14, 33, 34, 35, 36, 71, 72, 73, 74, 75, 76, 77, 125,
               126, 127, 128, 129, 130, 200} }

GasBuffers ==
    { MkBuffer(9, 23, mode, o0, o1,
               << Word(TEMPERATURE, 200), Word(DEPTH2, 2048 + 50) >>, 0) :
        mode \in {SCUBA, NITROX, FREEDIVE, GAUGE},
        o0 \in {0, 21, 50}, o1 \in {0, 21, 50} }

SampleBuffers ==
    { MkBuffer(9, 23, mode, 21, 0, ws, 0) :
        mode \in {SCUBA, FREEDIVE, GAUGE},
        ws \in UNION { [1..k -> Alphabet] : k \in 0..MaxWords } }

LongBuffers ==
    { MkBuffer(9, 23, mode, 21, 0,
               [i \in 1..LongWords |-> Word(TIME, 16383)], 0) :
        mode \in {SCUBA, FREEDIVE} }

\* Sample sections of every length up to MaxWords words, with and without
\* an odd last byte.
LengthBuffers ==
    { MkBuffer(9, 23, mode, 21, 0, ws, extra) :
        mode \in {SCUBA, FREEDIVE, GAUGE}, extra \in {0, 1},
        ws \in UNION { [1..k -> { Word(DEPTH, 100), Word(TIME, 15),
                                  Word(TEMPERATURE, 200) }] :
                         k \in 0..MaxWords } }

WalkBuffers == HeaderBuffers \cup GasBuffers \cup LengthBuffers \cup LongBuffers

Buffers == WalkBuffers \cup SampleBuffers

FieldTypes ==
    { "DC_FIELD_DIVETIME", "DC_FIELD_MAXDEPTH", "DC_FIELD_AVGDEPTH",
      "DC_FIELD_TEMPERATURE_MINIMUM", "DC_FIELD_ATMOSPHERIC",
      "DC_FIELD_GASMIX_COUNT", "DC_FIELD_GASMIX", "DC_FIELD_DIVEMODE",
      "DC_FIELD_SALINITY" }

\* The field queries made: every field with a value pointer (the gas mix
\* with index 0 and 1), and one with a NULL value pointer.
Queries ==
    { << t, 0, TRUE >> : t \in FieldTypes }
      \cup { << "DC_FIELD_GASMIX", 1, TRUE >>,
             << "DC_FIELD_GASMIX_COUNT", 0, FALSE >> }

\* ---------------------------------------------------------------- actions
Start(B) ==
    /\ data \in B
    /\ out = NoParser
    /\ pc = "start"
    /\ result = [op |-> "none"]
    /\ reads = << >>
    /\ size = 0 /\ interval = 0 /\ offset = 0
    /\ time = 0 /\ depth = 0 /\ gasmix = 0 /\ gasmix_previous = UNDEFINED
    /\ temperature = 0 /\ have_temperature = 0
    /\ events = << >>
    /\ firstEvents = NoEvents
    /\ walks = 0

Init == Start(Buffers)

\* cressi_goa_parser_create on the buffer (again, once a parser exists).
Create ==
    /\ pc \in {"start", "failed", "ready"}
    /\ LET r == cressi_goa_init(data) IN
       /\ result' = r.ret
       /\ reads' = r.reads
       /\ out' = IF r.ret.status = "DC_STATUS_SUCCESS" THEN r.parser ELSE out
       /\ pc' = IF r.ret.status = "DC_STATUS_SUCCESS" \/ out # NoParser
                THEN "ready" ELSE "failed"
    /\ UNCHANGED << data, walkvars, firstEvents, walks >>

GetDatetime ==
    /\ pc = "ready"
    /\ \E hasOut \in BOOLEAN :
         LET r == cressi_goa_parser_get_datetime(out, data, hasOut) IN
         /\ result' = r.ret
         /\ reads' = r.reads
    /\ UNCHANGED << data, out, pc, walkvars, firstEvents, walks >>

GetField ==
    /\ pc = "ready"
    /\ \E q \in Queries :
         LET r == cressi_goa_parser_get_field(out, data, q[1], q[2], q[3]) IN
         /\ result' = r.ret
         /\ reads' = r.reads
    /\ UNCHANGED << data, out, pc, walkvars, firstEvents, walks >>

\* samples_foreach up to the loop (lines 310-324), with a callback.
WalkStart ==
    /\ pc = "ready"
    /\ walks < MaxWalks
    /\ pc' = "walk"
    /\ size' = Len(data) - out.headersize
    /\ interval' = IF out.divemode = FREEDIVE THEN 2 ELSE 5
    /\ SetLocals(FreshLocals(Locals))
    /\ offset' = out.layout.headersize
    /\ events' = << >>
    /\ reads' = << >>
    /\ result' = [op |-> "samples_foreach", status |-> "running"]
    /\ UNCHANGED << data, out, firstEvents, walks >>

\* One iteration of the loop.
WalkStep ==
    /\ pc = "walk"
    /\ LoopCond(offset, size)
    /\ LET r == WalkIteration(out, data, interval, Locals, offset) IN
       /\ SetLocals(r.loc)
       /\ events' = events \o r.emitted
       /\ reads' = reads \o r.reads
    /\ offset' = offset + 2
    /\ UNCHANGED << data, out, pc, result, size, interval, firstEvents, walks >>

\* The loop ends and the walk returns (line 390).
WalkEnd ==
    /\ pc = "walk"
    /\ ~LoopCond(offset, size)
    /\ pc' = "ready"
    /\ result' = [op |-> "samples_foreach", status |-> "DC_STATUS_SUCCESS"]
    /\ firstEvents' = IF walks = 0 THEN events ELSE firstEvents
    /\ walks' = walks + 1
    /\ UNCHANGED << data, out, reads, walkvars >>

Next ==
    \/ Create
    \/ GetDatetime
    \/ GetField
    \/ WalkStart
    \/ WalkStep
    \/ WalkEnd

Spec == Init /\ [][Next]_vars

\* The walk is one synchronous call: once started, its loop runs to the end.
FairSpec ==
    Start(WalkBuffers) /\ [][Next]_vars /\ WF_vars(WalkStep) /\ WF_vars(WalkEnd)

\* ---------------------------------------------------- reading the state
Parsed == out # NoParser
Succeeded(r) == r.status = "DC_STATUS_SUCCESS"
IntervalOf(mode) == IF mode = FREEDIVE THEN 2 ELSE 5
SampleStart == out.headersize + out.layout.headersize
WordAt(a) == data[a + 1] + 256 * data[a + 2]
TypeOf(w) == w % 4
PayloadOf(w) == w \div 4
\* the word a WalkStep is about to process, and the one processed last
CurWord == WordAt(out.headersize + offset)
PrevWord == WordAt(out.headersize + offset - 2)
Walking == pc = "walk"
Stepped == Walking /\ offset >= out.layout.headersize + 2
IsStep == pc = "walk" /\ pc' = "walk" /\ offset' = offset + 2
Appended == SubSeq(events', Len(events) + 1, Len(events'))
Kinds(es) == [i \in DOMAIN es |-> es[i].type]
OfKind(es, k) == SelectSeq(es, LAMBDA e : e.type = k)
LeqU32(a, b) == a.hi < b.hi \/ (a.hi = b.hi /\ a.lo <= b.lo)
FieldOffset(layout, type) ==
    CASE type = "DC_FIELD_DIVETIME" -> layout.divetime
      [] type = "DC_FIELD_MAXDEPTH" -> layout.maxdepth
      [] type = "DC_FIELD_AVGDEPTH" -> layout.avgdepth
      [] type = "DC_FIELD_TEMPERATURE_MINIMUM" -> layout.temperature
      [] type = "DC_FIELD_ATMOSPHERIC" -> layout.atmospheric
      [] type = "DC_FIELD_GASMIX_COUNT" -> layout.gasmix
      [] type = "DC_FIELD_GASMIX" -> layout.gasmix
      [] OTHER -> 0

\* ------------------------------------------------------------------- C1
\* The events a Time word with payload p delivers when the accumulator is T,
\* the synthetic Time event carrying the accumulator `synth`.
SurfaceStep(synth) ==
    LET p == PayloadOf(CurWord)
        T == time
        iv == IntervalOf(out.divemode)
        a == Appended
    IN IF p > iv
       THEN /\ Len(a) >= 4
            /\ a[1] = Ev("DC_SAMPLE_TIME", Mul1000(synth))
            /\ a[2] = Ev("DC_SAMPLE_DEPTH", Frac(0, 10))
            /\ a[3] = Ev("DC_SAMPLE_TIME", Mul1000(T + p))
            /\ Len(OfKind(a, "DC_SAMPLE_TIME")) = 2
            /\ OfKind(a, "DC_SAMPLE_DEPTH")
                 = << Ev("DC_SAMPLE_DEPTH", Frac(0, 10)),
                      Ev("DC_SAMPLE_DEPTH", Frac(0, 10)) >>
            /\ time' = T + p
       ELSE /\ Len(a) >= 2
            /\ a[1] = Ev("DC_SAMPLE_TIME", Mul1000(T + p))
            /\ Len(OfKind(a, "DC_SAMPLE_TIME")) = 1
            /\ OfKind(a, "DC_SAMPLE_DEPTH")
                 = << Ev("DC_SAMPLE_DEPTH", Frac(0, 10)) >>
            /\ time' = T + p

\* C1 as stated: a Time word with payload p > interval, processed while the
\* accumulator holds T, delivers a synthetic Time event carrying T (the
\* accumulator before the bump) and a Depth event of 0, then the regular
\* record with Time T + p and Depth 0; with p <= interval no synthetic pair.
C1_AsStated ==
    [][IsStep /\ TypeOf(CurWord) = TIME => SurfaceStep(time)]_vars

\* C1 as amended: the accumulator is bumped by the interval first, so the
\* synthetic Time event carries T + interval (times 1000, in unsigned 32-bit
\* arithmetic), followed by a Depth event of 0; then the adjusted payload
\* p - interval is added and the regular record carries Time T + p and
\* Depth 0; with p <= interval no synthetic pair is delivered.
C1_SurfaceAfterBump ==
    [][IsStep /\ TypeOf(CurWord) = TIME
         => SurfaceStep(time + IntervalOf(out.divemode))]_vars

\* A Time word with payload above the interval has just been processed.
C1_Witness ==
    /\ Stepped
    /\ TypeOf(PrevWord) = TIME
    /\ PayloadOf(PrevWord) > IntervalOf(out.divemode)
    /\ Len(events) >= 4

\* ------------------------------------------------------------------- C2
\* C2: a field query (with a value pointer) for a field whose offset in the
\* active layout is UNDEFINED fails with DC_STATUS_UNSUPPORTED and returns
\* no value: AtmosphericPressure and AvgDepth in Freedive, GasMixCount and
\* GasMix[index] in Freedive and Gauge.
C2_UndefinedIsUnsupported ==
    (Parsed /\ result.op = "field" /\ result.hasValue
       /\ FieldOffset(out.layout, result.type) = UNDEFINED)
      => result.status = "DC_STATUS_UNSUPPORTED" /\ result.value = NoValue

\* ------------------------------------------------------------------- C3
\* The record a completing word delivers: Time, Temperature if and only if
\* the word before it is a Temperature word (with that word's payload),
\* Depth, then at most one GasMixChange.
RecordShape(a) ==
    LET pending == /\ offset >= out.layout.headersize + 2
                   /\ TypeOf(PrevWord) = TEMPERATURE
        n == Len(a)
        tail == IF pending THEN 2 ELSE 1
    IN /\ n >= tail + 1
       /\ a[1].type = "DC_SAMPLE_TIME"
       /\ pending => a[2] = Ev("DC_SAMPLE_TEMPERATURE",
                               Frac(PayloadOf(PrevWord), 10))
       /\ a[tail + 1].type = "DC_SAMPLE_DEPTH"
       /\ \/ n = tail + 1
          \/ n = tail + 2 /\ a[n].type = "DC_SAMPLE_GASMIX"

\* C3: every Depth, DepthAlt or Time word delivers exactly one completed
\* record (after the synthetic pair of a long Time word, if any), in the
\* order Time, Temperature iff a Temperature word was read since the last
\* record (the most recent payload, once), Depth, at most one GasMixChange;
\* a Temperature word delivers nothing.
C3_RecordOrder ==
    [][IsStep =>
         LET a == Appended
             long == /\ TypeOf(CurWord) = TIME
                     /\ PayloadOf(CurWord) > IntervalOf(out.divemode)
         IN IF TypeOf(CurWord) = TEMPERATURE THEN a = << >>
            ELSE IF long
            THEN /\ Len(a) >= 2
                 /\ Kinds(SubSeq(a, 1, 2))
                      = << "DC_SAMPLE_TIME", "DC_SAMPLE_DEPTH" >>
                 /\ RecordShape(SubSeq(a, 3, Len(a)))
            ELSE RecordShape(a)]_vars

\* Two Temperature words with different payloads and then a Depth word have
\* been processed: one Temperature event, carrying the second payload.
C3_Witness ==
    /\ Walking
    /\ offset >= out.layout.headersize + 6
    /\ TypeOf(WordAt(out.headersize + offset - 6)) = TEMPERATURE
    /\ TypeOf(WordAt(out.headersize + offset - 4)) = TEMPERATURE
    /\ WordAt(out.headersize + offset - 6) # WordAt(out.headersize + offset - 4)
    /\ TypeOf(PrevWord) \in {DEPTH, DEPTH2}
    /\ OfKind(events, "DC_SAMPLE_TEMPERATURE")
         = << Ev("DC_SAMPLE_TEMPERATURE",
                 Frac(PayloadOf(WordAt(out.headersize + offset - 4)), 10)) >>

\* ------------------------------------------------------------------- C4
GasEvents == OfKind(events, "DC_SAMPLE_GASMIX")
OpenCircuit == out.divemode \in {SCUBA, NITROX}

\* C4: GasMixChange events are delivered in Scuba and Nitrox only, and only
\* by a completed record whose gas mix index differs from the index of the
\* GasMixChange delivered before (none at first): the first completed
\* record carries one, every index is 0 or 1, and no two consecutive
\* GasMixChange events carry the same index.
C4_GasMixChange ==
    /\ [](Parsed =>
            /\ ~OpenCircuit => GasEvents = << >>
            /\ \A i \in DOMAIN GasEvents : GasEvents[i].value.gasmix \in {0, 1}
            /\ \A i \in 1..(Len(GasEvents) - 1) :
                 GasEvents[i].value # GasEvents[i + 1].value
            /\ (OpenCircuit /\ events # << >>) => GasEvents # << >>)
    /\ [][(IsStep /\ OpenCircuit /\ TypeOf(CurWord) # TEMPERATURE) =>
            LET a == Appended
                g == OfKind(a, "DC_SAMPLE_GASMIX")
                differs == \/ GasEvents = << >>
                           \/ GasEvents[Len(GasEvents)].value.gasmix # gasmix'
            IN /\ Len(g) <= 1
               /\ Len(g) = 1 <=> differs
               /\ Len(g) = 1 => a[Len(a)] = Ev("DC_SAMPLE_GASMIX", [gasmix |-> gasmix'])
               /\ events = << >> => Len(g) = 1]_vars

\* A Scuba or Nitrox walk that has delivered two gas changes.
C4_Witness == Parsed /\ OpenCircuit /\ Len(GasEvents) >= 2

\* ------------------------------------------------------------------- C5
CreateCase ==
    LET n == Len(data)
        id_len == data[1]
        logbook_len == data[2]
        m == data[2 + id_len + 2 + 1]
    IN IF n < 2 THEN "short"
       ELSE IF id_len < 9 \/ logbook_len < 23 THEN "prefix"
       ELSE IF n < 2 + id_len + logbook_len THEN "blocks"
       ELSE IF m >= 4 THEN "mode"
       ELSE IF n < 2 + id_len + logbook_len + layouts[m + 1].headersize
       THEN "fixed"
       ELSE "ok"

CreateOutcome ==
    /\ Succeeded(result) <=> CreateCase = "ok"
    /\ Succeeded(result) =>
         /\ pc = "ready"
         /\ out = [layout |-> layouts[data[2 + data[1] + 2 + 1] + 1],
                   headersize |-> 2 + data[1] + data[2],
                   divemode |-> data[2 + data[1] + 2 + 1]]
    /\ ~Succeeded(result) =>
         /\ result.status = "DC_STATUS_DATAFORMAT"
         /\ out = NoParser
         /\ pc = "failed"

\* C5 as stated: header decoding succeeds exactly in the case "ok", with the
\* context (Layout[m], 2 + id_len + logbook_len, m), and returns no parser
\* otherwise; a mode byte of 4 or more fails as an invalid mode, and a
\* buffer shorter than 2 + id_len + logbook_len fails as an invalid length,
\* whatever the mode byte.
C5_AsStated ==
    result.op = "create" =>
      /\ CreateOutcome
      /\ (/\ Len(data) >= 2
          /\ Len(data) > 2 + data[1] + 2
          /\ data[2 + data[1] + 2 + 1] >= 4)
           => result.error = "Invalid dive mode"
      /\ (Len(data) >= 2 /\ Len(data) < 2 + data[1] + data[2])
           => result.error = "Invalid dive length"

\* C5 as amended: the same outcome; every failure returns
\* DC_STATUS_DATAFORMAT, and the diagnostic follows the order of the checks:
\* invalid length below 2 bytes, invalid id or logbook length for a prefix
\* below its minimum, invalid length when the declared blocks do not fit,
\* invalid mode for a mode byte of 4 or more once the blocks fit, invalid
\* length when the fixed region does not fit.
C5_HeaderDecoding ==
    result.op = "create" =>
      /\ CreateOutcome
      /\ CreateCase = "short" => result.error = "Invalid dive length"
      /\ CreateCase = "prefix" => result.error = "Invalid id or logbook length"
      /\ CreateCase = "blocks" => result.error = "Invalid dive length"
      /\ CreateCase = "mode" => result.error = "Invalid dive mode"
      /\ CreateCase = "fixed" => result.error = "Invalid dive length"

\* Header decoding has failed on a mode byte of 4 or more.
C5_Witness ==
    /\ result.op = "create"
    /\ CreateCase = "mode"
    /\ result.error = "Invalid dive mode"

\* ------------------------------------------------------------------- C6
\* C6: every byte index a call reads lies inside the buffer: in header
\* decoding (failing paths included), the datetime query, every field query
\* in every mode (GasMixCount, GasMix[0], GasMix[1]) and the sample walk.
C6_ReadsInBounds ==
    /\ \A i \in DOMAIN reads : reads[i] >= 0 /\ reads[i] < Len(data)
    /\ (result.op = "create" /\ Len(reads) > 2)
         => /\ reads[3] = 2 + data[1] + 2
            /\ Len(data) >= 2 + data[1] + data[2]

\* GasMix[1] has been queried in a mode without a gas mix table.
C6_Witness ==
    /\ Parsed
    /\ out.layout.gasmix = UNDEFINED
    /\ result.op = "field"
    /\ result.type = "DC_FIELD_GASMIX"
    /\ result.flags = 1
    /\ reads # << >>

\* ------------------------------------------------------------------- C7
\* C7: in Scuba and Nitrox, GasMixCount is the number of leading gas mix
\* slots with a nonzero oxygen byte: 0 when slot 0 has a zero oxygen byte
\* (whatever slot 1 holds), and never more than 2.
C7_GasMixCount ==
    (Parsed /\ OpenCircuit /\ result.op = "field" /\ result.hasValue
       /\ result.type = "DC_FIELD_GASMIX_COUNT")
      => LET o0 == data[out.headersize + 26 + 1 + 1]
             o1 == data[out.headersize + 26 + 3 + 1]
         IN /\ Succeeded(result)
            /\ result.value.uint = IF o0 = 0 THEN 0 ELSE IF o1 = 0 THEN 1 ELSE 2
            /\ result.value.uint <= 2

\* The count has been queried with slot 0 empty and slot 1 not.
C7_Witness ==
    /\ Parsed /\ OpenCircuit /\ result.op = "field" /\ result.hasValue
    /\ result.type = "DC_FIELD_GASMIX_COUNT"
    /\ data[out.headersize + 26 + 1 + 1] = 0
    /\ data[out.headersize + 26 + 3 + 1] # 0
    /\ result.value = Uint(0)

\* ------------------------------------------------------------------- C8
\* C8: after header decoding, no query or walk changes the context or the
\* buffer; a field or datetime query repeated returns the same result; a
\* second walk delivers the events of the first; decoding the header again
\* gives the same context or the same failure.
C8_NoHiddenState ==
    /\ []((pc = "ready" /\ walks >= 1 /\ result.op = "samples_foreach")
            => events = firstEvents)
    /\ [][/\ data' = data
          /\ pc # "start" => out' = out
          /\ (pc = "ready" /\ result'.op = "create") => Succeeded(result')
          /\ (pc = "failed" /\ result'.op = "create") => result' = result
          /\ (/\ result.op = "field" /\ result'.op = "field"
              /\ result'.type = result.type /\ result'.flags = result.flags
              /\ result'.hasValue = result.hasValue) => result' = result
          /\ (/\ result.op = "datetime" /\ result'.op = "datetime"
              /\ result'.hasOut = result.hasOut) => result' = result]_vars

\* A second walk that delivered events has finished.
C8_Witness ==
    /\ pc = "ready" /\ walks = 2 /\ result.op = "samples_foreach"
    /\ Len(events) >= 4

\* ------------------------------------------------------------------- C9
WordCount == (Len(data) - SampleStart) \div 2

\* C9: the walk ends and returns success, having read exactly the
\* floor((length - header size - Layout.headersize) / 2) words of the sample
\* region, each once and in increasing order; an odd last byte is not read,
\* and an empty sample region delivers no event.
C9_WalkTerminates ==
    /\ [](Walking =>
            /\ reads = [i \in 1..(offset - out.layout.headersize)
                          |-> SampleStart + i - 1]
            /\ offset - out.layout.headersize <= 2 * WordCount)
    /\ []((pc = "ready" /\ result.op = "samples_foreach") =>
            /\ Succeeded(result)
            /\ reads = [i \in 1..(2 * WordCount) |-> SampleStart + i - 1]
            /\ WordCount = 0 => events = << >>)
    /\ (Walking ~> (pc = "ready" /\ result.op = "samples_foreach"
                      /\ Succeeded(result)))

\* A walk over a region of whole words and one odd byte has finished.
C9_Witness ==
    /\ pc = "ready" /\ result.op = "samples_foreach"
    /\ WordCount >= 1
    /\ Len(data) - SampleStart = 2 * WordCount + 1
    /\ Len(reads) = 2 * WordCount

\* ------------------------------------------------------------------ C10
TimeEvents == OfKind(events, "DC_SAMPLE_TIME")

\* C10: the values of successive Time events of a walk (the accumulator
\* times 1000 in unsigned 32-bit arithmetic) never decrease.
C10_TimeMonotone ==
    \A i \in 1..(Len(TimeEvents) - 1) :
      LeqU32(TimeEvents[i].value, TimeEvents[i + 1].value)

====
